---- MODULE Spec2Model ----
(***************************************************************************)
(* Model of common/membership/hostinfo.go: the HostInfo value, its two     *)
(* constructors and its methods.  Go strings are sequences of one-         *)
(* character strings, so that splitting, joining and formatting of         *)
(* addresses are computed character by character as the library does.      *)
(***************************************************************************)
EXTENDS Integers, Sequences, FiniteSets, TLC

VARIABLES given, hi, op, arg, ret, afterSet

vars == <<given, hi, op, arg, ret, afterSet>>

(***************************************************************************)
(* Bounds of the model.                                                    *)
(***************************************************************************)
\* longest candidate address enumerated exhaustively over Alphabet
MaxLen == 2
\* most leading zeros put in front of a port text
MaxZeros == 1

(***************************************************************************)
(* Strings.                                                                *)
(***************************************************************************)
EmptyStr == <<>>

RECURSIVE IndexByteFrom(_, _, _)
\* index (1-based) of the first c in s at or after position i, 0 if none
IndexByteFrom(s, c, i) ==
    IF i > Len(s) THEN 0
    ELSE IF s[i] = c THEN i
    ELSE IndexByteFrom(s, c, i + 1)

IndexByte(s, c) == IndexByteFrom(s, c, 1)

RECURSIVE LastIndexByteFrom(_, _, _)
LastIndexByteFrom(s, c, i) ==
    IF i < 1 THEN 0
    ELSE IF s[i] = c THEN i
    ELSE LastIndexByteFrom(s, c, i - 1)

\* index (1-based) of the last c in s, 0 if none
LastIndexByte(s, c) == LastIndexByteFrom(s, c, Len(s))

DigitChars == <<"0", "1", "2", "3", "4", "5", "6", "7", "8", "9">>

RECURSIVE Itoa(_)
\* strconv.Itoa for a non-negative int: the canonical decimal rendering
Itoa(n) ==
    IF n < 10 THEN <<DigitChars[n + 1]>>
    ELSE Itoa(n \div 10) \o <<DigitChars[(n % 10) + 1]>>

(***************************************************************************)
(* Errors.  nil is NilErr; net.SplitHostPort fails with an *AddrError that *)
(* carries the reason and the offending address; fmt.Errorf builds an      *)
(* error from its message.                                                 *)
(***************************************************************************)
NilErr == [kind |-> "nil"]

AddrError(addr, why) == [kind |-> "AddrError", Err |-> why, Addr |-> addr]

Errorf(msg) == [kind |-> "errorString", s |-> msg]

\* net.SplitHostPort
SplitHostPort(hostport) ==
    LET i == LastIndexByte(hostport, ":")
        fail(why) == [host |-> EmptyStr, port |-> EmptyStr,
                      err |-> AddrError(hostport, why)]
        \* the trailing checks shared by both branches; j and k are the
        \* 1-based positions from which '[' and ']' are searched
        finish(host, j, k) ==
            IF IndexByteFrom(hostport, "[", j) > 0
            THEN fail("unexpected '[' in address")
            ELSE IF IndexByteFrom(hostport, "]", k) > 0
            THEN fail("unexpected ']' in address")
            ELSE [host |-> host,
                  port |-> SubSeq(hostport, i + 1, Len(hostport)),
                  err |-> NilErr]
    IN  IF i = 0 THEN fail("missing port in address")
        ELSE IF hostport[1] = "["
        THEN LET end == IndexByte(hostport, "]")
             IN  IF end = 0 THEN fail("missing ']' in address")
                 ELSE IF end = Len(hostport)
                 THEN fail("missing port in address")
                 ELSE IF end + 1 = i
                 THEN finish(SubSeq(hostport, 2, end - 1), 2, end + 1)
                 ELSE IF hostport[end + 1] = ":"
                 THEN fail("too many colons in address")
                 ELSE fail("missing port in address")
        ELSE LET host == SubSeq(hostport, 1, i - 1)
             IN  IF IndexByte(host, ":") > 0
                 THEN fail("too many colons in address")
                 ELSE finish(host, 1, 1)

\* net.JoinHostPort
JoinHostPort(host, port) ==
    IF IndexByte(host, ":") > 0
    THEN <<"[">> \o host \o <<"]", ":">> \o port
    ELSE host \o <<":">> \o port

(***************************************************************************)
(* Port tables.                                                            *)
(***************************************************************************)
PortTchannel == <<"t", "c", "h", "a", "n", "n", "e", "l">>

PortGRPC == <<"g", "r", "p", "c">>

\* a nil or empty PortMap
NoPorts == <<>>

RECURSIVE Join(_, _)
\* strings.Join
Join(elems, sep) ==
    IF Len(elems) = 0 THEN EmptyStr
    ELSE IF Len(elems) = 1 THEN elems[1]
    ELSE elems[1] \o sep \o Join(Tail(elems), sep)

\* the orders in which a range over map m can visit its keys
RangeOrders(m) ==
    {o \in [1 .. Cardinality(DOMAIN m) -> DOMAIN m] :
        \A a, b \in DOMAIN o : a # b => o[a] # o[b]}

\* PortMap.String, for the order in which the range visits the keys
PortMapString(m, order) ==
    Join([n \in DOMAIN order |-> order[n] \o <<":">> \o Itoa(m[order[n]])],
         <<",", " ">>)

(***************************************************************************)
(* HostInfo.                                                               *)
(***************************************************************************)
\* NewHostInfo; the error of the split is dropped
NewHostInfo(addr) ==
    [addr |-> addr,
     ip |-> SplitHostPort(addr).host,
     identity |-> EmptyStr,
     portMap |-> NoPorts]

\* NewDetailedHostInfo; the error of the split is dropped
NewDetailedHostInfo(addr, identity, portMap) ==
    [addr |-> addr,
     ip |-> SplitHostPort(addr).host,
     identity |-> identity,
     portMap |-> portMap]

\* HostInfo.GetAddress
GetAddress(h) == h.addr

\* HostInfo.String, for the order in which the port table is visited
HostInfoString(h, order) ==
    <<"a", "d", "d", "r", ":", " ">> \o h.addr
    \o <<",", " ", "i", "d", "e", "n", "t", "i", "t", "y", ":", " ">>
    \o h.identity
    \o <<",", " ", "p", "o", "r", "t", "M", "a", "p", ":", " ">>
    \o PortMapString(h.portMap, order)

\* the verb %q applied to a string without special characters
Quote(s) == <<"\"">> \o s \o <<"\"">>

\* mutant of GetNamedAddress: answers with the primary address
GetNamedAddressPrimaryMut(h, port, order) ==
    IF port \in DOMAIN h.portMap
    THEN [val |-> h.addr, err |-> NilErr]
    ELSE [val |-> EmptyStr,
          err |-> Errorf(<<"p", "o", "r", "t", " ">> \o Quote(port)
                         \o <<" ", "i", "s", " ", "n", "o", "t", " ",
                              "s", "e", "t", " ", "f", "o", "r", " ">>
                         \o HostInfoString(h, order))]

\* HostInfo.GetNamedAddress; order is the order in which the diagnostic
\* dump of the record visits the port table
GetNamedAddress(h, port, order) ==
    IF port \in DOMAIN h.portMap
    THEN [val |-> JoinHostPort(h.ip, Itoa(h.portMap[port])), err |-> NilErr]
    ELSE [val |-> EmptyStr,
          err |-> Errorf(<<"p", "o", "r", "t", " ">> \o Quote(port)
                         \o <<" ", "i", "s", " ", "n", "o", "t", " ",
                              "s", "e", "t", " ", "f", "o", "r", " ">>
                         \o HostInfoString(h, order))]

\* whether s is a non-empty run of decimal digits
IsDigits(s) ==
    /\ Len(s) > 0
    /\ \A n \in 1 .. Len(s) : \E d \in 1 .. 10 : DigitChars[d] = s[n]

RECURSIVE Atoi(_)
\* the number a run of decimal digits denotes
Atoi(s) ==
    IF Len(s) = 0 THEN 0
    ELSE 10 * Atoi(SubSeq(s, 1, Len(s) - 1))
         + (CHOOSE d \in 0 .. 9 : DigitChars[d + 1] = s[Len(s)])

\* mutant of Belongs: the hosts are not compared
BelongsAnyHostMut(h, address) ==
    IF h.addr = address THEN [val |-> TRUE, err |-> NilErr]
    ELSE LET s == SplitHostPort(address)
         IN  IF s.err # NilErr THEN [val |-> FALSE, err |-> s.err]
             ELSE IF \E name \in DOMAIN h.portMap :
                        s.port = Itoa(h.portMap[name])
             THEN [val |-> TRUE, err |-> NilErr]
             ELSE [val |-> FALSE, err |-> NilErr]

\* mutant of Belongs: a candidate that does not split is just no match
BelongsSwallowMut(h, address) ==
    IF h.addr = address THEN [val |-> TRUE, err |-> NilErr]
    ELSE LET s == SplitHostPort(address)
         IN  IF s.err # NilErr THEN [val |-> FALSE, err |-> NilErr]
             ELSE IF s.host # h.ip THEN [val |-> FALSE, err |-> NilErr]
             ELSE IF \E name \in DOMAIN h.portMap :
                        s.port = Itoa(h.portMap[name])
             THEN [val |-> TRUE, err |-> NilErr]
             ELSE [val |-> FALSE, err |-> NilErr]

\* mutant of Belongs: no exact match before the candidate is split
BelongsNoExactMut(h, address) ==
    LET s == SplitHostPort(address)
    IN  IF s.err # NilErr THEN [val |-> FALSE, err |-> s.err]
        ELSE IF s.host # h.ip THEN [val |-> FALSE, err |-> NilErr]
        ELSE IF \E name \in DOMAIN h.portMap :
                   s.port = Itoa(h.portMap[name])
        THEN [val |-> TRUE, err |-> NilErr]
        ELSE [val |-> FALSE, err |-> NilErr]

\* HostInfo.Belongs
Belongs(h, address) ==
    IF h.addr = address THEN [val |-> TRUE, err |-> NilErr]
    ELSE LET s == SplitHostPort(address)
         IN  IF s.err # NilErr THEN [val |-> FALSE, err |-> s.err]
             ELSE IF s.host # h.ip THEN [val |-> FALSE, err |-> NilErr]
             ELSE IF \E name \in DOMAIN h.portMap :
                        s.port = Itoa(h.portMap[name])
             THEN [val |-> TRUE, err |-> NilErr]
             ELSE [val |-> FALSE, err |-> NilErr]

\* mutant of Identity: no fallback to the address
IdentityNoFallbackMut(h) == h.identity

\* HostInfo.Identity
Identity(h) == IF h.identity = EmptyStr THEN h.addr ELSE h.identity

\* mutant of Label: every key is present
LabelPresentMut(h, key) == [value |-> key, has |-> TRUE]

\* HostInfo.Label
Label(h, key) == [value |-> EmptyStr, has |-> FALSE]

\* mutant of SetLabel: the value is kept in the record
SetLabelKeepMut(h, key, value) == [h EXCEPT !.identity = value]

\* HostInfo.SetLabel: the receiver is a value and the body is empty
SetLabel(h, key, value) == h

(***************************************************************************)
(* Inputs.                                                                 *)
(***************************************************************************)
Alphabet == {"h", ":", "[", "]"}

\* every string over Alphabet of at most MaxLen characters
ShortStrings == UNION {[1 .. n -> Alphabet] : n \in 0 .. MaxLen}

Hosts == {EmptyStr, <<"h">>, <<"g">>, <<":", ":">>}

Ports == {7, 70}

RECURSIVE Zeros(_)
Zeros(n) == IF n = 0 THEN EmptyStr ELSE <<"0">> \o Zeros(n - 1)

\* port texts: canonical renderings, the same with leading zeros, no text
PortTexts ==
    {Zeros(z) \o Itoa(p) : z \in 0 .. MaxZeros, p \in Ports} \cup {EmptyStr}

\* well-formed addresses, with and without brackets around the host
WellFormed ==
    {h \o <<":">> \o t : h \in Hosts \ {<<":", ":">>}, t \in PortTexts}
    \cup {<<"[">> \o h \o <<"]", ":">> \o t : h \in Hosts, t \in PortTexts}

Candidates == ShortStrings \cup WellFormed

\* addresses a record is constructed from: what JoinHostPort produces, a
\* bracketed plain host, and addresses that do not split
RecordAddrs ==
    {JoinHostPort(h, Itoa(p)) : h \in Hosts, p \in Ports}
    \cup {<<"[", "h", "]", ":", "7">>}
    \cup {EmptyStr, <<"h">>, <<"h", ":", "7", ":", "7">>, <<"[", "h", "]">>}

Identities == {EmptyStr, <<"n">>}

PortMaps ==
    UNION {[names -> Ports] : names \in SUBSET {PortTchannel, PortGRPC}}

PortNames == {PortTchannel, PortGRPC, <<"x">>}

LabelKeys == {<<"k">>, <<"j">>}

LabelValues == {<<"v">>}

(***************************************************************************)
(* The state machine: a record is constructed, then its methods are called *)
(* in any order with any arguments.  given holds the arguments of the      *)
(* constructor; op, arg and ret are the last call, its arguments and what  *)
(* it returned; afterSet tells that the last call is a Label of the key    *)
(* that the call before it passed to SetLabel.                             *)
(***************************************************************************)
Init ==
    /\ \/ \E a \in RecordAddrs :
            /\ hi = NewHostInfo(a)
            /\ arg = <<a>>
            /\ op = "NewHostInfo"
       \/ \E a \in RecordAddrs, id \in Identities, pm \in PortMaps :
            /\ hi = NewDetailedHostInfo(a, id, pm)
            /\ arg = <<a, id, pm>>
            /\ op = "NewDetailedHostInfo"
    /\ given = arg
    /\ ret = hi
    /\ afterSet = FALSE

CallGetAddress ==
    /\ op' = "GetAddress"
    /\ arg' = <<>>
    /\ ret' = GetAddress(hi)
    /\ afterSet' = FALSE
    /\ UNCHANGED <<given, hi>>

CallGetNamedAddress ==
    \E port \in PortNames, order \in RangeOrders(hi.portMap) :
        /\ op' = "GetNamedAddress"
        /\ arg' = <<port>>
        /\ ret' = GetNamedAddress(hi, port, order)
        /\ afterSet' = FALSE
        /\ UNCHANGED <<given, hi>>

CallBelongs ==
    \E address \in Candidates \cup {hi.addr} :
        /\ op' = "Belongs"
        /\ arg' = <<address>>
        /\ ret' = Belongs(hi, address)
        /\ afterSet' = FALSE
        /\ UNCHANGED <<given, hi>>

CallIdentity ==
    /\ op' = "Identity"
    /\ arg' = <<>>
    /\ ret' = Identity(hi)
    /\ afterSet' = FALSE
    /\ UNCHANGED <<given, hi>>

CallLabel ==
    \E key \in LabelKeys :
        /\ op' = "Label"
        /\ arg' = <<key>>
        /\ ret' = Label(hi, key)
        /\ afterSet' = (op = "SetLabel" /\ arg[1] = key)
        /\ UNCHANGED <<given, hi>>

CallSetLabel ==
    \E key \in LabelKeys, value \in LabelValues :
        /\ op' = "SetLabel"
        /\ arg' = <<key, value>>
        /\ ret' = <<>>
        /\ hi' = SetLabel(hi, key, value)
        /\ UNCHANGED given
        /\ afterSet' = FALSE

CallString ==
    \E order \in RangeOrders(hi.portMap) :
        /\ op' = "String"
        /\ arg' = <<>>
        /\ ret' = HostInfoString(hi, order)
        /\ afterSet' = FALSE
        /\ UNCHANGED <<given, hi>>

Next ==
    \/ CallGetAddress
    \/ CallGetNamedAddress
    \/ CallBelongs
    \/ CallIdentity
    \/ CallLabel
    \/ CallSetLabel
    \/ CallString

Spec == Init /\ [][Next]_vars

TypeOK == op \in {"NewHostInfo", "NewDetailedHostInfo", "GetAddress",
                  "GetNamedAddress", "Belongs", "Identity", "Label",
                  "SetLabel", "String"}

(***************************************************************************)
(* Properties.                                                             *)
(***************************************************************************)
\* the candidate of the last Belongs call and its split
Candidate == arg[1]

Split == SplitHostPort(Candidate)

\* the split of the record's own address
Own == SplitHostPort(hi.addr)

Matched == [val |-> TRUE, err |-> NilErr]

NotMatched == [val |-> FALSE, err |-> NilErr]

\* the candidate's port text is the decimal rendering of a configured port
PortInTable == \E name \in DOMAIN hi.portMap : Split.port = Itoa(hi.portMap[name])

\* the candidate's port text denotes the number of a configured port
PortNumberInTable ==
    /\ IsDigits(Split.port)
    /\ \E name \in DOMAIN hi.portMap : Atoi(Split.port) = hi.portMap[name]

\* C1: a candidate that splits and has the record's ip belongs
\* if and only if its port is the port of the primary address or the
\* decimal rendering of a configured port.
C1_PrimaryOrNamedPort ==
    (op = "Belongs" /\ Split.err = NilErr /\ Split.host = hi.ip)
        => /\ ret.err = NilErr
           /\ ret.val <=> \/ (Own.err = NilErr /\ Split.port = Own.port)
                          \/ PortInTable

\* C2: a candidate that is not the address and whose host differs from the
\* record's ip does not belong, whatever its port.
C2_OtherHostNeverBelongs ==
    (op = "Belongs" /\ Candidate # hi.addr
        /\ Split.err = NilErr /\ Split.host # hi.ip)
        => ret = NotMatched

\* another host with the primary port, which is also a configured port
C2_Witness ==
    /\ op = "Belongs"
    /\ Candidate # hi.addr
    /\ Split.err = NilErr /\ Own.err = NilErr
    /\ Split.host # hi.ip
    /\ Split.port = Own.port
    /\ PortInTable
    /\ ret = NotMatched

\* C3: a candidate that is not the address and does not split yields false
\* with the error of the split; a candidate equal to the address belongs
\* without being split.
C3_ParseErrorPropagated ==
    op = "Belongs"
        => /\ (Candidate # hi.addr /\ Split.err # NilErr)
                => (ret.val = FALSE /\ ret.err = Split.err
                    /\ ret.err.kind = "AddrError"
                    /\ ret.err.Addr = Candidate)
           /\ (Candidate = hi.addr) => ret = Matched

\* a candidate that does not split, against a record whose ip is empty and
\* whose table is not
C3_Witness ==
    /\ op = "Belongs"
    /\ Candidate # hi.addr
    /\ Split.err # NilErr
    /\ hi.ip = EmptyStr
    /\ hi.portMap # NoPorts
    /\ ret.val = FALSE
    /\ ret.err.kind = "AddrError"

\* C4: GetNamedAddress succeeds exactly for the configured names; then the
\* result is the ip joined with the decimal port, else the result is empty
\* and the error names the requested port.
C4_NamedAddress ==
    op = "GetNamedAddress"
        => LET name == arg[1]
               back == SplitHostPort(ret.val)
               head == <<"p", "o", "r", "t", " ", "\"">> \o name \o <<"\"">>
           IN  /\ (ret.err = NilErr) <=> (name \in DOMAIN hi.portMap)
               /\ (name \in DOMAIN hi.portMap)
                    => /\ ret.val = JoinHostPort(hi.ip, Itoa(hi.portMap[name]))
                       /\ back.err = NilErr
                       /\ back.host = hi.ip
                       /\ IsDigits(back.port)
                       /\ Atoi(back.port) = hi.portMap[name]
               /\ (name \notin DOMAIN hi.portMap)
                    => /\ ret.val = EmptyStr
                       /\ ret.err.kind = "errorString"
                       /\ SubSeq(ret.err.s, 1, Len(head)) = head

\* a named address that differs from the primary one
C4_Witness ==
    /\ op = "GetNamedAddress"
    /\ ret.err = NilErr
    /\ ret.val # hi.addr
    /\ Own.err = NilErr

\* C5: a record made from an address that splits returns that address and
\* recognises it.
C5_OwnAddress ==
    SplitHostPort(given[1]).err = NilErr
        => /\ op = "GetAddress" => ret = given[1]
           /\ (op = "Belongs" /\ Candidate = given[1]) => ret = Matched

\* the record is asked about its own address, whose port is not configured
C5_Witness ==
    /\ op = "Belongs"
    /\ Candidate = given[1]
    /\ SplitHostPort(given[1]).err = NilErr
    /\ ~PortInTable
    /\ ret = Matched

\* C6: a record made from an address that does not split has an
\* empty ip, and no candidate that splits and is not the address belongs
\* to it.
C6_MalformedNeverBelongs ==
    SplitHostPort(given[1]).err # NilErr
        => /\ hi.ip = EmptyStr
           /\ hi.addr = given[1]
           /\ (op = "Belongs" /\ Candidate # hi.addr /\ Split.err = NilErr)
                => ret = NotMatched

\* C7: Identity is the configured identity when there is one and the
\* address otherwise, hence not empty when the address is not.
C7_Identity ==
    op = "Identity"
        => /\ ret = (IF hi.identity # EmptyStr THEN hi.identity ELSE hi.addr)
           /\ hi.addr # EmptyStr => ret # EmptyStr
           /\ Len(given) = 1 => ret = given[1]
           /\ Len(given) = 3
                => ret = (IF given[2] # EmptyStr THEN given[2] ELSE given[1])

\* no identity was given and the address stands in
C7_Witness ==
    /\ op = "Identity"
    /\ Len(given) = 3
    /\ given[2] = EmptyStr
    /\ given[1] # EmptyStr
    /\ ret = given[1]

\* C8 as stated: no call changes the record, and a call repeated with the
\* same argument returns the same result.
C8_Immutable ==
    [][/\ hi' = hi
       /\ (op' = op /\ arg' = arg) => ret' = ret]_vars

\* the calls whose result renders the port table
RendersTable ==
    \/ op = "String"
    \/ op = "GetNamedAddress" /\ ret.err # NilErr

\* C8 amended: no call changes the record; a call repeated with the same
\* argument returns the same result, except that String and the error text
\* of GetNamedAddress, which render the port table in the order the range
\* visits it, are only the same when the table has at most one entry; a
\* failing GetNamedAddress fails again with an empty result.
C8_ImmutableUpToOrder ==
    [][/\ hi' = hi
       /\ (op' = op /\ arg' = arg)
            => /\ (~RendersTable \/ Cardinality(DOMAIN hi.portMap) <= 1)
                    => ret' = ret
               /\ (op = "GetNamedAddress" /\ ret.err # NilErr)
                    => (ret'.val = ret.val /\ ret'.err # NilErr)
               /\ op = "String" => Len(ret') = Len(ret)]_vars

\* a call has just failed and the fields are still the given ones
C8_Witness ==
    /\ op = "GetNamedAddress"
    /\ ret.err # NilErr
    /\ Len(given) = 3
    /\ hi.addr = given[1]
    /\ hi.identity = given[2]
    /\ hi.portMap = given[3]
    /\ hi.ip = SplitHostPort(given[1]).host
    /\ Cardinality(DOMAIN hi.portMap) = 2

\* C9: Label reports every key as absent, also a key that was just set,
\* and SetLabel changes no field of the record.
C9_LabelsNoOp ==
    [][/\ op' = "Label" => ret' = [value |-> EmptyStr, has |-> FALSE]
       /\ op' = "SetLabel" => hi' = hi]_vars

\* the key that was just set is asked for
C9_Witness ==
    /\ op = "Label"
    /\ afterSet
    /\ ret.has = FALSE

\* C10: with the record's ip, a port text that denotes the
\* number of a configured port belongs.
C10_NumericPort ==
    (op = "Belongs" /\ Split.err = NilErr /\ Split.host = hi.ip
        /\ PortNumberInTable)
        => ret = Matched

====
